---------------------------- MODULE Spec2Model ----------------------------
(***************************************************************************)
(* peppemon: the weather / particle engine (ParticleSystem), its settings  *)
(* surface (settings_change) and the decorative render layers              *)
(* (render_clock, render_particles) of src/src/main.rs.                    *)
(*                                                                         *)
(* Conventions                                                             *)
(*   time       milliseconds; an Instant is the clock value `now` at which *)
(*              it was taken, x.elapsed() is now - x.                      *)
(*   f32        fixed point.  Positions are in micro-cells (POS per cell), *)
(*              speeds, drifts and rng.f32() draws in thousandths.         *)
(*   rng        fastrand::Rng is a seeded deterministic generator held in  *)
(*              the engine; it is modelled as a small full-period linear   *)
(*              congruential generator whose state is part of the engine.  *)
(*   glyphs     non-ASCII glyphs are written by code point: "u2502" is the *)
(*              box-drawing bar, "u00B7" the middle dot, "u2588" the block. *)
(*   frame_count  u32 with wrapping_add; the runs explored stay far below  *)
(*              2^32, so the increment is written without the wrap.        *)
(***************************************************************************)
EXTENDS Integers, Sequences, FiniteSets, TLC

\* ------------------------------------------------------------------------
\* Program constants (src/src/main.rs:25-31)
\* ------------------------------------------------------------------------
TICK_RATE == 1000
ANIM_TICK == 16
MAX_PARTICLES == 100
CYCLE_DURATION == 45000
LIGHTNING_FLASH_FRAMES == 18
LIGHTNING_MIN_INTERVAL_SECS == 3
LIGHTNING_MAX_INTERVAL_SECS == 8
\* Season auto-rotate period, Duration::from_secs(15)
SEASON_DURATION == 15000
\* transition_cooldown armed by an effect change
TRANSITION_FRAMES == 30
\* spawn throttle: frame_count % 6
SPAWN_EVERY == 6

\* micro-cells per cell (fixed-point scale of x and y)
POS == 1000000

Min(a, b) == IF a < b THEN a ELSE b
Max(a, b) == IF a > b THEN a ELSE b
\* u8/u16 saturating_sub
SatSub(a, b) == IF a > b THEN a - b ELSE 0

\* ------------------------------------------------------------------------
\* Enums (src/src/main.rs:52-102)
\* ------------------------------------------------------------------------
WeatherEffect == {"Rain", "Snow", "Lightning", "Seasons"}
CycleMode == {"Auto", "Pinned"}
SeasonMode == {"AutoRotate", "RealSeason", "NatureBlend"}
Season == {"Spring", "Summer", "Autumn", "Winter"}
SettingsRow == {"Effect", "CycleMode", "SeasonMode", "Intensity", "Speed"}

\* ------------------------------------------------------------------------
\* fastrand::Rng: state in 0 .. RngMod-1, one step per draw
\* ------------------------------------------------------------------------
RngMod == 1024
RngA == 109
RngC == 71
RngNext(s) == (RngA * s + RngC) % RngMod
\* the state after n draws
RECURSIVE RngSkip(_, _)
RngSkip(s, n) == IF n = 0 THEN s ELSE RngSkip(RngNext(s), n - 1)
\* rng.usize(..n), rng.u8(..n): a value in 0 .. n-1
RngBelow(s, n) == (s * n) \div RngMod
\* rng.bool()
RngBool(s) == RngBelow(s, 2) = 1
\* rng.u8(..): a value in 0 .. 255
RngU8(s) == RngBelow(s, 256)
\* rng.f32(): a value in [0, 1), in thousandths
RngF32(s) == RngBelow(s, 1000)
\* rng.u16(lo..hi): a value in lo .. hi-1
RngU16(s, lo, hi) == lo + RngBelow(s, hi - lo)
\* rng.u64(..=hi): a value in 0 .. hi
RngU64Incl(s, hi) == RngBelow(s, hi + 1)

\* ------------------------------------------------------------------------
\* f32::sin on an angle in milli-radians, result in thousandths.
\* Piecewise-linear through the zeros and extrema of the sine.
\* ------------------------------------------------------------------------
TWO_PI == 6283
SinMilli(a) ==
    LET p == a % TWO_PI
        q == TWO_PI \div 4
    IN  IF p < q THEN (p * 1000) \div q
        ELSE IF p < 3 * q THEN ((2 * q - p) * 1000) \div q
        ELSE ((p - 4 * q) * 1000) \div q

\* ------------------------------------------------------------------------
\* detect_season (src/src/main.rs:546-566), on the day count since the epoch
\* ------------------------------------------------------------------------
\* civil_from_days without the century terms of yoe and doy
CivilMonth_julian(days) ==
    LET z == days + 719468
        era == (IF z >= 0 THEN z ELSE z - 146096) \div 146097
        doe == z - era * 146097
        yoe == (doe - doe \div 1460) \div 365
        doy == doe - (365 * yoe + yoe \div 4)
        mp == (5 * doy + 2) \div 153
    IN  IF mp < 10 THEN mp + 3 ELSE mp - 9

CivilMonth(days) ==
    LET z == days + 719468
        era == (IF z >= 0 THEN z ELSE z - 146096) \div 146097
        doe == z - era * 146097
        yoe == (doe - doe \div 1460 + doe \div 36524 - doe \div 146096) \div 365
        doy == doe - (365 * yoe + yoe \div 4 - yoe \div 100)
        mp == (5 * doy + 2) \div 153
    IN  IF mp < 10 THEN mp + 3 ELSE mp - 9

detect_season(days) ==
    LET m == CivilMonth(days)
    IN  IF m \in 3..5 THEN "Spring"
        ELSE IF m \in 6..8 THEN "Summer"
        ELSE IF m \in 9..11 THEN "Autumn"
        ELSE "Winter"

\* ------------------------------------------------------------------------
\* Particle (src/src/main.rs:127-135).  `id` is a history tag, the serial
\* number of the push that created the particle; the program has no such
\* field and never reads it.
\* ------------------------------------------------------------------------
Particle(x, y, symbol, fg, speed_y, drift_x, life, id) ==
    [x |-> x, y |-> y, symbol |-> symbol, fg |-> fg,
     speed_y |-> speed_y, drift_x |-> drift_x, life |-> life, id |-> id]

\* self.particles.push(p), with the history tag
Push(ps, p, rng) ==
    [ps EXCEPT !.particles = Append(@, p), !.rng = rng, !.spawned = @ + 1]

\* rng.f32() * k for k in thousandths, result in thousandths
Frac(s, k) == (RngF32(s) * k) \div 1000

\* ------------------------------------------------------------------------
\* ParticleSystem::new (src/src/main.rs:602-625)
\* ------------------------------------------------------------------------
NewParticleSystem(seed, now, days) ==
    [particles |-> << >>,
     rng |-> seed,
     effect |-> "Rain",
     cycle_mode |-> "Auto",
     season_mode |-> "RealSeason",
     intensity |-> 3,
     speed |-> 5,
     current_season |-> detect_season(days),
     season_timer |-> now,
     cycle_timer |-> now,
     lightning |-> [active |-> FALSE,
                    frames_remaining |-> 0,
                    bolt_segments |-> << >>,
                    next_strike |-> 5,
                    timer |-> now],
     enabled |-> TRUE,
     frame_count |-> 0,
     transition_cooldown |-> 0,
     spawned |-> 0]

\* ------------------------------------------------------------------------
\* spawn_rain (src/src/main.rs:698-736): one iteration of the loop body
\* ------------------------------------------------------------------------
RainParticle(ps, width) ==
    LET s0 == ps.rng
        heavy == RngBool(s0)
        s1 == RngNext(s0)
        symbol == IF heavy THEN <<"u2502", "|">>[RngBelow(s1, 2) + 1] ELSE "u00B7"
        fg == IF heavy
              THEN (IF RngBool(RngNext(s1)) THEN <<40, 60, 90>> ELSE <<50, 80, 100>>)
              ELSE <<50, 50, 50>>
        s3 == IF heavy THEN RngSkip(s1, 2) ELSE s1
        has_wind == RngU8(s3) < 30
        s4 == RngNext(s3)
        s5 == RngNext(s4)
        s6 == RngNext(s5)
        s7 == RngNext(s6)
    IN  [p |-> Particle(RngF32(s4) * width * (POS \div 1000),
                        -(RngF32(s5) * 3 * (POS \div 1000)),
                        IF has_wind /\ heavy THEN "/" ELSE symbol,
                        fg,
                        IF heavy THEN 800 + Frac(s6, 600) ELSE 500 + Frac(s6, 300),
                        IF has_wind THEN 100 + Frac(s7, 100) ELSE 0,
                        1200,
                        ps.spawned + 1),
         rng |-> IF has_wind THEN RngNext(s7) ELSE s7]

\* spawn_rain without the capacity test of its loop
RECURSIVE spawn_rain_uncapped(_, _, _)
spawn_rain_uncapped(ps, width, count) ==
    IF count = 0 THEN ps
    ELSE LET r == RainParticle(ps, width)
         IN  spawn_rain_uncapped(Push(ps, r.p, r.rng), width, count - 1)

RECURSIVE spawn_rain(_, _, _)
spawn_rain(ps, width, count) ==
    IF count = 0 \/ Len(ps.particles) >= MAX_PARTICLES THEN ps
    ELSE LET r == RainParticle(ps, width)
         IN  spawn_rain(Push(ps, r.p, r.rng), width, count - 1)

\* ------------------------------------------------------------------------
\* spawn_snow (src/src/main.rs:738-767)
\* ------------------------------------------------------------------------
SnowParticle(ps, width) ==
    LET fc == ps.frame_count
        s0 == ps.rng
        foreground == RngBool(s0)
        s1 == RngNext(s0)
        symbol == <<"*", "u00B7", "u2022", ".">>[RngBelow(s1, 4) + 1]
        s2 == RngNext(s1)
        seed == RngF32(s2) * 100
        s3 == RngNext(s2)
        s4 == RngNext(s3)
        s5 == RngNext(s4)
    IN  [p |-> Particle(RngF32(s3) * width * (POS \div 1000),
                        -(RngF32(s4) * 2 * (POS \div 1000)),
                        symbol,
                        IF foreground THEN <<120, 120, 130>> ELSE <<70, 70, 80>>,
                        IF foreground THEN 300 + Frac(s5, 200) ELSE 150 + Frac(s5, 150),
                        (SinMilli(seed + fc * 100) * 300) \div 1000,
                        1800,
                        ps.spawned + 1),
         rng |-> RngNext(s5)]

RECURSIVE spawn_snow(_, _, _)
spawn_snow(ps, width, count) ==
    IF count = 0 \/ Len(ps.particles) >= MAX_PARTICLES THEN ps
    ELSE LET r == SnowParticle(ps, width)
         IN  spawn_snow(Push(ps, r.p, r.rng), width, count - 1)

\* ------------------------------------------------------------------------
\* spawn_season (src/src/main.rs:807-911): the four match arms
\* ------------------------------------------------------------------------
SpringParticle(ps, s0, width) ==
    LET fc == ps.frame_count
        seed == RngF32(s0) * 10
        s1 == RngNext(s0)
        s2 == RngNext(s1)
        s3 == RngNext(s2)
        s4 == RngNext(s3)
        s5 == RngNext(s4)
    IN  [p |-> Particle(RngF32(s1) * width * (POS \div 1000),
                        -(RngF32(s2) * 2 * (POS \div 1000)),
                        <<"*", ".", "u00B7", "'">>[RngBelow(s3, 4) + 1],
                        << <<120, 60, 80>>, <<140, 80, 100>>, <<100, 70, 75>> >>[RngBelow(s4, 3) + 1],
                        150 + Frac(s5, 200),
                        (SinMilli(fc * 80 + seed) * 250) \div 1000,
                        1500,
                        ps.spawned + 1),
         rng |-> RngNext(s5)]

SummerParticle(ps, s0, width, height) ==
    LET s1 == RngNext(s0)
        s2 == RngNext(s1)
        s3 == RngNext(s2)
        s4 == RngNext(s3)
        s5 == RngNext(s4)
        s6 == RngNext(s5)
    IN  [p |-> Particle(RngF32(s0) * width * (POS \div 1000),
                        height * (600 + Frac(s1, 380)) * (POS \div 1000),
                        <<".", "u00B7", "u00B0", "*">>[RngBelow(s2, 4) + 1],
                        << <<255, 200, 60>>, <<200, 160, 40>>, <<255, 180, 50>>,
                           <<140, 110, 30>>, <<180, 140, 35>>, <<100, 80, 20>> >>[RngBelow(s3, 6) + 1],
                        Frac(s4, 100) - 50,
                        ((RngF32(s5) - 500) * 300) \div 1000,
                        120 + RngU16(s6, 0, 210),
                        ps.spawned + 1),
         rng |-> RngNext(s6)]

AutumnParticle(ps, s0, width) ==
    LET fc == ps.frame_count
        seed == RngF32(s0) * 10
        s1 == RngNext(s0)
        s2 == RngNext(s1)
        s3 == RngNext(s2)
        s4 == RngNext(s3)
        s5 == RngNext(s4)
    IN  [p |-> Particle(RngF32(s1) * width * (POS \div 1000),
                        -(RngF32(s2) * 2 * (POS \div 1000)),
                        <<"~", "}", "{", "\\", "/", "_">>[RngBelow(s3, 6) + 1],
                        << <<130, 70, 0>>, <<110, 55, 15>>, <<100, 40, 30>>, <<120, 90, 20>> >>[RngBelow(s4, 4) + 1],
                        300 + Frac(s5, 500),
                        (SinMilli(fc * 120 + seed) * 500) \div 1000,
                        1200,
                        ps.spawned + 1),
         rng |-> RngNext(s5)]

WinterParticle(ps, s0, width) ==
    LET fc == ps.frame_count
        foreground == RngBool(s0)
        s1 == RngNext(s0)
        fg == IF foreground THEN <<100, 100, 110>>
              ELSE IF RngBool(s1) THEN <<70, 85, 95>> ELSE <<55, 55, 60>>
        s2 == IF foreground THEN s1 ELSE RngNext(s1)
        seed == RngF32(s2) * 100
        s3 == RngNext(s2)
        near_bottom == RngF32(s3)
        s4 == RngNext(s3)
        s5 == RngNext(s4)
        s6 == RngNext(s5)
        s7 == RngNext(s6)
        base == IF foreground THEN 250 + Frac(s7, 200) ELSE 100 + Frac(s7, 150)
    IN  [p |-> Particle(RngF32(s4) * width * (POS \div 1000),
                        -(RngF32(s5) * 2 * (POS \div 1000)),
                        <<"*", ".", "u00B7", "u00B0", "+">>[RngBelow(s6, 5) + 1],
                        fg,
                        IF near_bottom > 800 THEN base \div 2 ELSE base,
                        (SinMilli(seed + fc * 50) * 200) \div 1000,
                        1800,
                        ps.spawned + 1),
         rng |-> RngNext(s7)]

\* the season of one particle: a draw only under NatureBlend
SeasonParticle(ps, width, height, days) ==
    LET blend == ps.season_mode = "NatureBlend"
        season == IF ps.season_mode = "RealSeason" THEN detect_season(days)
                  ELSE IF ps.season_mode = "AutoRotate" THEN ps.current_season
                  ELSE <<"Spring", "Summer", "Autumn", "Winter">>[RngBelow(ps.rng, 4) + 1]
        s0 == IF blend THEN RngNext(ps.rng) ELSE ps.rng
    IN  IF season = "Spring" THEN SpringParticle(ps, s0, width)
        ELSE IF season = "Summer" THEN SummerParticle(ps, s0, width, height)
        ELSE IF season = "Autumn" THEN AutumnParticle(ps, s0, width)
        ELSE WinterParticle(ps, s0, width)

RECURSIVE spawn_season(_, _, _, _, _)
spawn_season(ps, width, height, count, days) ==
    IF count = 0 \/ Len(ps.particles) >= MAX_PARTICLES THEN ps
    ELSE LET r == SeasonParticle(ps, width, height, days)
         IN  spawn_season(Push(ps, r.p, r.rng), width, height, count - 1, days)

\* ------------------------------------------------------------------------
\* update_lightning (src/src/main.rs:769-805)
\* ------------------------------------------------------------------------
\* the first column of a bolt: rng.u16(2..width.saturating_sub(2).max(3))
BoltStart(s, width) == RngU16(s, 2, Max(SatSub(width, 2), 3))

\* (x + 1).min(width.saturating_sub(1))
StepRight(x, width) == Min(x + 1, SatSub(width, 1))

\* the loop `for y in 0..height`: segs and rng after the rows y .. height-1
RECURSIVE BoltWalk(_, _, _, _, _, _)
BoltWalk(segs, x, y, s, width, height) ==
    IF y >= height THEN [segs |-> segs, rng |-> s]
    ELSE LET dir == RngBelow(s, 3)
             x1 == IF dir = 0 THEN SatSub(x, 1)
                   ELSE IF dir = 1 THEN StepRight(x, width)
                   ELSE x
             s1 == RngNext(s)
             branch == RngBelow(s1, 10) < 3
             s2 == RngNext(s1)
             bx == IF RngBool(s2) THEN SatSub(x1, 1) ELSE StepRight(x1, width)
             main == Append(segs, <<x, y>>)
         IN  IF branch
             THEN BoltWalk(Append(main, <<bx, y>>), x1, y + 1, RngNext(s2), width, height)
             ELSE BoltWalk(main, x1, y + 1, s2, width, height)

\* Duration::from_secs(LIGHTNING_MIN_INTERVAL_SECS + rng.u64(..=range))
\* a next_strike sampled over the whole of 0 ..= MAX on top of MIN
NextStrike_wide(s) ==
    LIGHTNING_MIN_INTERVAL_SECS + RngU64Incl(s, LIGHTNING_MAX_INTERVAL_SECS)

NextStrike(s) ==
    LIGHTNING_MIN_INTERVAL_SECS
      + RngU64Incl(s, LIGHTNING_MAX_INTERVAL_SECS - LIGHTNING_MIN_INTERVAL_SECS)

\* an update_lightning that leaves the flag set when the counter reaches 0
update_lightning_sticky(ps, now, width, height) ==
    LET l == ps.lightning
    IN  IF l.active
        THEN [ps EXCEPT !.lightning.frames_remaining = SatSub(l.frames_remaining, 1)]
        ELSE IF now - l.timer >= l.next_strike * 1000
        THEN LET bolt == BoltWalk(<< >>, BoltStart(ps.rng, width), 0,
                                  RngNext(ps.rng), width, height)
             IN  [ps EXCEPT !.lightning = [active |-> TRUE,
                                           frames_remaining |-> LIGHTNING_FLASH_FRAMES,
                                           bolt_segments |-> bolt.segs,
                                           next_strike |-> NextStrike(bolt.rng),
                                           timer |-> now],
                            !.rng = RngNext(bolt.rng)]
        ELSE ps

update_lightning(ps, now, width, height) ==
    LET l == ps.lightning
    IN  IF l.active
        THEN LET fr == SatSub(l.frames_remaining, 1)
             IN  [ps EXCEPT !.lightning.frames_remaining = fr,
                            !.lightning.active = (fr # 0)]
        ELSE IF now - l.timer >= l.next_strike * 1000
        THEN LET bolt == BoltWalk(<< >>, BoltStart(ps.rng, width), 0,
                                  RngNext(ps.rng), width, height)
             IN  [ps EXCEPT !.lightning = [active |-> TRUE,
                                           frames_remaining |-> LIGHTNING_FLASH_FRAMES,
                                           bolt_segments |-> bolt.segs,
                                           next_strike |-> NextStrike(bolt.rng),
                                           timer |-> now],
                            !.rng = RngNext(bolt.rng)]
        ELSE ps

\* ------------------------------------------------------------------------
\* ParticleSystem::update (src/src/main.rs:627-696)
\* ------------------------------------------------------------------------
NextEffect(e) ==
    CASE e = "Rain" -> "Snow"
      [] e = "Snow" -> "Lightning"
      [] e = "Lightning" -> "Seasons"
      [] e = "Seasons" -> "Rain"

PrevEffect(e) ==
    CASE e = "Rain" -> "Seasons"
      [] e = "Snow" -> "Rain"
      [] e = "Lightning" -> "Snow"
      [] e = "Seasons" -> "Lightning"

NextSeason(s) ==
    CASE s = "Spring" -> "Summer"
      [] s = "Summer" -> "Autumn"
      [] s = "Autumn" -> "Winter"
      [] s = "Winter" -> "Spring"

\* lines 633-643: auto-cycle effects
\* an auto-cycle that does not look at cycle_mode
AutoCycle_unpinned(ps, now) ==
    IF now - ps.cycle_timer >= CYCLE_DURATION
    THEN [ps EXCEPT !.effect = NextEffect(@),
                    !.transition_cooldown = TRANSITION_FRAMES,
                    !.cycle_timer = now]
    ELSE ps

\* an auto-cycle that waits for more than CYCLE_DURATION
AutoCycle_late(ps, now) ==
    IF ps.cycle_mode = "Auto" /\ now - ps.cycle_timer > CYCLE_DURATION
    THEN [ps EXCEPT !.effect = NextEffect(@),
                    !.transition_cooldown = TRANSITION_FRAMES,
                    !.cycle_timer = now]
    ELSE ps

AutoCycle(ps, now) ==
    IF ps.cycle_mode = "Auto" /\ now - ps.cycle_timer >= CYCLE_DURATION
    THEN [ps EXCEPT !.effect = NextEffect(@),
                    !.transition_cooldown = TRANSITION_FRAMES,
                    !.cycle_timer = now]
    ELSE ps

\* a season rotation that does not look at the effect
SeasonRotate_any_effect(ps, now) ==
    IF /\ ps.season_mode = "AutoRotate"
       /\ now - ps.season_timer >= SEASON_DURATION
    THEN [ps EXCEPT !.current_season = NextSeason(@), !.season_timer = now]
    ELSE ps

\* lines 645-656: season auto-rotate
SeasonRotate(ps, now) ==
    IF /\ ps.effect = "Seasons"
       /\ ps.season_mode = "AutoRotate"
       /\ now - ps.season_timer >= SEASON_DURATION
    THEN [ps EXCEPT !.current_season = NextSeason(@), !.season_timer = now]
    ELSE ps

\* line 659: speed_mult = 0.2 + (speed - 1) * (2.8 / 9), in 45ths
SpeedMult45(speed) == 9 + (speed - 1) * 14

\* lines 662, 668-669: v * speed_mult * dt_factor with dt_factor = dt * 10.
\* v in thousandths, speed_mult in 45ths, dt in ms (dt_factor = dt / 100):
\* v/1000 * m/45 * dt/100 cells = v * m * dt * 2 / 9 micro-cells
Displacement(v, speed, dt) == (v * SpeedMult45(speed) * dt * 2) \div 9

\* a closure body that leaves life alone
MoveParticle_ageless(p, speed, dt) ==
    [p EXCEPT !.y = @ + Displacement(p.speed_y, speed, dt),
              !.x = @ + Displacement(p.drift_x, speed, dt)]

\* lines 668-670: the body of the retain_mut closure
MoveParticle(p, speed, dt) ==
    [p EXCEPT !.y = @ + Displacement(p.speed_y, speed, dt),
              !.x = @ + Displacement(p.drift_x, speed, dt),
              !.life = SatSub(@, 1)]

\* a retain predicate without the life test
Retained_in_view(p, width, height) ==
    /\ p.y < (height + 1) * POS
    /\ p.x >= -POS
    /\ p.x < (width + 1) * POS

\* line 671: the retain predicate
Retained(p, width, height) ==
    /\ p.y < (height + 1) * POS
    /\ p.x >= -POS
    /\ p.x < (width + 1) * POS
    /\ p.life > 0

\* lines 664-672
Kinematics(ps, width, height, dt) ==
    LET moved == [i \in DOMAIN ps.particles |-> MoveParticle(ps.particles[i], ps.speed, dt)]
        keep(p) == Retained(p, width, height)
    IN  [ps EXCEPT !.particles = SelectSeq(moved, keep)]

\* no spawn throttle
SpawnFrame_always(frame_count) == frame_count >= 0

\* line 681: the spawn throttle
SpawnFrame(frame_count) == frame_count % SPAWN_EVERY = 0

\* a spawn dispatch that asks for one particle whatever the intensity
Spawn_single(ps, now, days, width, height) ==
    CASE ps.effect = "Rain" -> spawn_rain(ps, width, 1)
      [] ps.effect = "Snow" -> spawn_snow(ps, width, 1)
      [] ps.effect = "Lightning" ->
            update_lightning(spawn_rain(ps, width, 1), now, width, height)
      [] ps.effect = "Seasons" -> spawn_season(ps, width, height, 1, days)

\* lines 685-695
Spawn(ps, now, days, width, height) ==
    LET spawn_count == ps.intensity
    IN  CASE ps.effect = "Rain" -> spawn_rain(ps, width, spawn_count)
          [] ps.effect = "Snow" -> spawn_snow(ps, width, spawn_count)
          [] ps.effect = "Lightning" ->
                update_lightning(spawn_rain(ps, width, spawn_count), now, width, height)
          [] ps.effect = "Seasons" -> spawn_season(ps, width, height, spawn_count, days)

\* an update that counts the cooldown down and goes on to spawn
update_eager(ps, now, days, width, height, dt) ==
    IF ~ps.enabled THEN ps
    ELSE LET p1 == [ps EXCEPT !.frame_count = @ + 1]
             p2 == AutoCycle(p1, now)
             p3 == SeasonRotate(p2, now)
             p4 == Kinematics(p3, width, height, dt)
             p5 == [p4 EXCEPT !.transition_cooldown = SatSub(@, 1)]
         IN  IF ~SpawnFrame(p5.frame_count) THEN p5
             ELSE Spawn(p5, now, days, width, height)

update(ps, now, days, width, height, dt) ==
    IF ~ps.enabled THEN ps
    ELSE LET p1 == [ps EXCEPT !.frame_count = @ + 1]
             p2 == AutoCycle(p1, now)
             p3 == SeasonRotate(p2, now)
             p4 == Kinematics(p3, width, height, dt)
         IN  IF p4.transition_cooldown > 0
             THEN [p4 EXCEPT !.transition_cooldown = @ - 1]
             ELSE IF ~SpawnFrame(p4.frame_count) THEN p4
             ELSE Spawn(p4, now, days, width, height)

\* ------------------------------------------------------------------------
\* settings_change (src/src/main.rs:1942-2002)
\* ------------------------------------------------------------------------
\* (v + 1).min(hi)
\* a step up without the upper clamp
StepUp_unclamped(v, hi) == v + 1

StepUp(v, hi) == Min(v + 1, hi)
\* v.saturating_sub(1).max(1)
StepDown(v) == Max(SatSub(v, 1), 1)

NextSeasonMode(m) ==
    CASE m = "AutoRotate" -> "RealSeason"
      [] m = "RealSeason" -> "NatureBlend"
      [] m = "NatureBlend" -> "AutoRotate"

PrevSeasonMode(m) ==
    CASE m = "AutoRotate" -> "NatureBlend"
      [] m = "RealSeason" -> "AutoRotate"
      [] m = "NatureBlend" -> "RealSeason"

\* lines 1944-1963
\* an effect change that keeps the pool
ChangeEffect_keeping(ps, now, right) ==
    [ps EXCEPT !.effect = IF right THEN NextEffect(@) ELSE PrevEffect(@),
               !.transition_cooldown = TRANSITION_FRAMES,
               !.cycle_timer = now]

ChangeEffect(ps, now, right) ==
    [ps EXCEPT !.effect = IF right THEN NextEffect(@) ELSE PrevEffect(@),
               !.particles = << >>,
               !.transition_cooldown = TRANSITION_FRAMES,
               !.cycle_timer = now]

\* lines 1964-1970
ChangeCycleMode(ps, now) ==
    [ps EXCEPT !.cycle_mode = IF @ = "Auto" THEN "Pinned" ELSE "Auto",
               !.cycle_timer = now]

\* lines 1971-1986
ChangeSeasonMode(ps, now, right) ==
    [ps EXCEPT !.season_mode = IF right THEN NextSeasonMode(@) ELSE PrevSeasonMode(@),
               !.season_timer = now]

\* lines 1987-1993
ChangeIntensity(ps, right) ==
    [ps EXCEPT !.intensity = IF right THEN StepUp(@, 5) ELSE StepDown(@)]

\* lines 1994-2000
ChangeSpeed(ps, right) ==
    [ps EXCEPT !.speed = IF right THEN StepUp(@, 10) ELSE StepDown(@)]

settings_change(ps, now, row, right) ==
    CASE row = "Effect" -> ChangeEffect(ps, now, right)
      [] row = "CycleMode" -> ChangeCycleMode(ps, now)
      [] row = "SeasonMode" -> ChangeSeasonMode(ps, now, right)
      [] row = "Intensity" -> ChangeIntensity(ps, right)
      [] row = "Speed" -> ChangeSpeed(ps, right)

\* ------------------------------------------------------------------------
\* The frame: a cell grid, cells[<<x, y>>] = [symbol, fg, bg]
\* (ratatui Buffer; area.x = area.y = 0)
\* ------------------------------------------------------------------------
\* Color::Reset and the tint Option::None, as tuples like Color::Rgb
Reset == << >>
NoTint == <<-1>>

Blank == [symbol |-> " ", fg |-> Reset, bg |-> Reset]

Coords(width, height) == (0 .. width - 1) \X (0 .. height - 1)

\* Layer 1, the metrics widgets (external): three layouts of the widget
\* text, by name.  "empty" leaves every cell blank, "full" fills every cell,
\* "rows" fills every other row.
WidgetLayouts == {"empty", "full", "rows"}

WidgetCell(layout, x, y) ==
    IF layout = "full" \/ (layout = "rows" /\ y % 2 = 1)
    THEN [symbol |-> "W", fg |-> <<220, 220, 235>>, bg |-> Reset]
    ELSE Blank

WidgetLayer(layout, width, height) ==
    [c \in Coords(width, height) |-> WidgetCell(layout, c[1], c[2])]

\* CLOCK_GLYPHS (src/src/main.rs:36-48), rows as 3-bit masks
CLOCK_GLYPHS ==
    << <<7, 5, 5, 5, 7>>, <<2, 6, 2, 2, 7>>, <<7, 1, 7, 4, 7>>, <<7, 1, 7, 1, 7>>,
       <<5, 5, 7, 1, 1>>, <<7, 4, 7, 1, 7>>, <<7, 4, 7, 5, 7>>, <<7, 1, 1, 1, 1>>,
       <<7, 5, 7, 5, 7>>, <<7, 5, 7, 1, 7>>, <<0, 2, 0, 2, 0>> >>

\* bits & (1 << (2 - col)) != 0
BitSet(bits, col) == (bits \div (2 ^ (2 - col))) % 2 = 1

\* ------------------------------------------------------------------------
\* render_clock (src/src/main.rs:958-1024)
\* ------------------------------------------------------------------------
CLOCK_W == 38
CLOCK_H == 5

\* the lit pixels of a clock that is drawn whatever the size of the area
ClockPixels_any_size(width, height, h, m, s) ==
    LET digits == <<h \div 10, h % 10, 10, m \div 10, m % 10>>
        colon_visible == s % 2 = 0
        ox == (width - CLOCK_W) \div 2
        oy == 1
        lit == { q \in (0 .. 4) \X (0 .. 4) \X (0 .. 2) \X (0 .. 1) :
                   /\ ~(q[1] = 2 /\ ~colon_visible)
                   /\ digits[q[1] + 1] < Len(CLOCK_GLYPHS)
                   /\ BitSet(CLOCK_GLYPHS[digits[q[1] + 1] + 1][q[2] + 1], q[3]) }
        at == { <<ox + q[1] * 8 + q[3] * 2 + q[4], oy + q[2]>> : q \in lit }
    IN  { c \in at : c[1] < width /\ c[2] < height }

\* the cells of the lit pixels; q = <<glyph slot gi, bitmap row, col, dx>>
ClockPixels(width, height, h, m, s) ==
    LET digits == <<h \div 10, h % 10, 10, m \div 10, m % 10>>
        colon_visible == s % 2 = 0
        ox == (width - CLOCK_W) \div 2
        oy == 1
        lit == { q \in (0 .. 4) \X (0 .. 4) \X (0 .. 2) \X (0 .. 1) :
                   /\ ~(q[1] = 2 /\ ~colon_visible)
                   /\ digits[q[1] + 1] < Len(CLOCK_GLYPHS)
                   /\ BitSet(CLOCK_GLYPHS[digits[q[1] + 1] + 1][q[2] + 1], q[3]) }
        at == { <<ox + q[1] * 8 + q[3] * 2 + q[4], oy + q[2]>> : q \in lit }
    IN  IF width < CLOCK_W + 4 \/ height < CLOCK_H + 4 THEN {}
        ELSE { c \in at : c[1] < width /\ c[2] < height }

\* lines 1009-1017: one lit cell
ClockCell(cell) ==
    IF cell.symbol = " "
    THEN [cell EXCEPT !.symbol = "u2588", !.fg = <<70, 80, 130>>]
    ELSE [cell EXCEPT !.bg = <<22, 24, 40>>]

render_clock(cells, width, height, h, m, s) ==
    LET lit == ClockPixels(width, height, h, m, s)
    IN  [c \in DOMAIN cells |-> IF c \in lit THEN ClockCell(cells[c]) ELSE cells[c]]

\* ------------------------------------------------------------------------
\* render_particles (src/src/main.rs:1026-1087)
\* ------------------------------------------------------------------------
\* lines 1035-1040: the flash tint, NoTint outside 1..18
FlashTint(frames_remaining) ==
    IF frames_remaining \in 13 .. 18 THEN <<15, 15, 30>>
    ELSE IF frames_remaining \in 7 .. 12 THEN <<30, 30, 55>>
    ELSE IF frames_remaining \in 1 .. 6 THEN <<18, 18, 35>>
    ELSE NoTint

\* lines 1041-1051
TintBlank(cells, bg) ==
    IF bg = NoTint THEN cells
    ELSE [c \in DOMAIN cells |->
            IF cells[c].symbol = " " THEN [cells[c] EXCEPT !.bg = bg] ELSE cells[c]]

\* line 1053: the bolt is drawn while frames_remaining >= 12
BoltVisible(frames_remaining) == frames_remaining >= 12

BoltGlyph(by) ==
    IF by % 3 = 0 THEN "u2572" ELSE IF by % 3 = 1 THEN "u2502" ELSE "u2571"

\* `v as u16` on an f32: truncation toward zero, saturating at 0 and 65535
AsU16(v) == IF v < 0 THEN 0 ELSE Min(v \div POS, 65535)

\* a glyph write that does not look at what the cell holds
PutOver(cells, wr, width, height) ==
    IF wr.x < width /\ wr.y < height
    THEN [cells EXCEPT ![<<wr.x, wr.y>>].symbol = wr.symbol,
                       ![<<wr.x, wr.y>>].fg = wr.fg]
    ELSE cells

\* a write of one glyph that does not compare its cell with the area: a
\* cell outside the area is written as well
PutIfBlank_unguarded(cells, wr, width, height) ==
    IF <<wr.x, wr.y>> \in DOMAIN cells
    THEN IF cells[<<wr.x, wr.y>>].symbol = " "
         THEN [cells EXCEPT ![<<wr.x, wr.y>>].symbol = wr.symbol,
                            ![<<wr.x, wr.y>>].fg = wr.fg]
         ELSE cells
    ELSE (<<wr.x, wr.y>> :> [symbol |-> wr.symbol, fg |-> wr.fg, bg |-> Reset]) @@ cells

\* lines 1055-1067 and 1078-1083: the guarded write of one glyph,
\* wr = [x, y, symbol, fg]
PutIfBlank(cells, wr, width, height) ==
    IF wr.x < width /\ wr.y < height /\ cells[<<wr.x, wr.y>>].symbol = " "
    THEN [cells EXCEPT ![<<wr.x, wr.y>>].symbol = wr.symbol,
                       ![<<wr.x, wr.y>>].fg = wr.fg]
    ELSE cells

\* the `for` loops of lines 1054 and 1075: the writes lo .. hi, in order.
\* The range is split in two and the grid after the first half is a value
\* (DOMAIN first is taken) before the second half starts.
RECURSIVE PutAll(_, _, _, _, _, _)
PutAll(cells, writes, lo, hi, width, height) ==
    IF lo > hi THEN cells
    ELSE IF lo = hi THEN PutIfBlank(cells, writes[lo], width, height)
    ELSE LET mid == (lo + hi) \div 2
             first == PutAll(cells, writes, lo, mid, width, height)
         IN  IF DOMAIN first = {} THEN first
             ELSE PutAll(first, writes, mid + 1, hi, width, height)

\* lines 1054-1066: what the bolt loop writes
BoltWrites(segs) ==
    [i \in DOMAIN segs |->
        [x |-> segs[i][1], y |-> segs[i][2],
         symbol |-> BoltGlyph(segs[i][2]), fg |-> <<180, 180, 100>>]]

\* lines 1075-1082: what the particle loop writes
ParticleWrites(particles) ==
    [i \in DOMAIN particles |->
        [x |-> AsU16(particles[i].x), y |-> AsU16(particles[i].y),
         symbol |-> particles[i].symbol, fg |-> particles[i].fg]]

DrawBolt(cells, segs, width, height) ==
    PutAll(cells, BoltWrites(segs), 1, Len(segs), width, height)

\* a particle loop that runs from the end of the pool to its start
DrawParticles_last_first(cells, particles, width, height) ==
    LET writes == ParticleWrites(particles)
        back == [i \in DOMAIN writes |-> writes[Len(writes) + 1 - i]]
    IN  PutAll(cells, back, 1, Len(particles), width, height)

DrawParticles(cells, particles, width, height) ==
    PutAll(cells, ParticleWrites(particles), 1, Len(particles), width, height)

render_particles(cells, eng, width, height) ==
    IF ~eng.enabled THEN cells
    ELSE LET l == eng.lightning
             flash == l.active /\ eng.effect = "Lightning"
             c1 == IF flash THEN TintBlank(cells, FlashTint(l.frames_remaining)) ELSE cells
             c2 == IF flash /\ BoltVisible(l.frames_remaining)
                   THEN DrawBolt(c1, l.bolt_segments, width, height)
                   ELSE c1
         IN  DrawParticles(c2, eng.particles, width, height)

\* ------------------------------------------------------------------------
\* ui (src/src/main.rs:936-956): layers 1 (widgets), 0.5 (clock) and 0
\* (particles); `overlay` is app.show_help || app.show_settings
\* ------------------------------------------------------------------------
ui(eng, width, height, layout, overlay, h, m, s) ==
    LET widget == WidgetLayer(layout, width, height)
        c1 == IF overlay THEN widget ELSE render_clock(widget, width, height, h, m, s)
    IN  [width |-> width, height |-> height, widget |-> widget,
         cells |-> render_particles(c1, eng, width, height)]

\* ------------------------------------------------------------------------
\* State
\*   ps      app.particles, the ParticleSystem
\*   now     the monotonic clock read by Instant::now(), in ms
\*   days    the wall clock read by detect_season, in days since the epoch
\*   size    terminal.size(), the viewport passed to update and to ui
\*   frame   the cell grid of the last terminal.draw, NoFrame outside a draw
\*   script  the inputs the environment has lined up, played in order
\*   free    how many further inputs the environment may choose freely
\*   last    history: the input handled by the last step, and the pool
\*           size, push count, intensity and speed as they were before it;
\*           `before` is the whole engine before the step, `since_set` the
\*           number of update calls since the last Effect change made
\*           through settings_change (-1: none yet), `mark` the push count
\*           at the last automatic rotation if no Effect change followed
\*           it (-1 otherwise), `ended` the time at which the last
\*           lightning strike ended (-1: none yet)
\* The main loop (src/src/main.rs:2071-2190):
\*   pc         where main is: "draw", "poll", "dispatch", "anim", "data",
\*              "quit" inside the loop, "exit" after it, "off" when the
\*              loop is not running
\*   last_anim  the Instant of the last animation tick, in ms
\*   last_tick  the Instant of the last data tick, in ms
\*   app        the App fields the key dispatch reads and writes, and the
\*              number of app.tick() calls
\*   env        what the environment does in this iteration: how long the
\*              draw takes, which event arrives and when
\*   trace      history: the steps of the current iteration, in order
\*   call       history: the last wait (timeout, time waited) and the last
\*              update call (dt, time since the previous animation tick)
\* detect_season on its own:
\*   season     the Season detect_season returned for `days`, "none" before
\* ------------------------------------------------------------------------
VARIABLES ps, now, days, size, frame, script, free, last,
          pc, last_anim, last_tick, app, env, trace, call, season

evars == <<ps, now, days, size, frame, script, free, last>>
lvars == <<pc, last_anim, last_tick, app, env, trace, call>>
vars == <<ps, now, days, size, frame, script, free, last,
          pc, last_anim, last_tick, app, env, trace, call, season>>

NoFrame == [width |-> 0, height |-> 0, widget |-> << >>, cells |-> << >>]

\* Inputs
InUpdate(dt) == [op |-> "update", dt |-> dt]
InFrame(d, dt) == [op |-> "frame", d |-> d, dt |-> dt]
InSet(row, right) == [op |-> "set", row |-> row, right |-> right]
InWait(d) == [op |-> "wait", d |-> d]
InResize(w, h) == [op |-> "resize", width |-> w, height |-> h]
InDraw(layout, overlay, h, m, s) ==
    [op |-> "draw", layout |-> layout, overlay |-> overlay, h |-> h, m |-> m, s |-> s]
NoInput == [op |-> "none"]
NoStep ==
    [in |-> NoInput, pool |-> 0, spawned |-> 0, intensity |-> 0, speed |-> 0,
     before |-> << >>, since_set |-> -1, mark |-> -1, ended |-> -1]

\* n repetitions of an input, as one script item
Times(n, in) == [in |-> in, n |-> n]

\* the inputs on offer: the head of the script, or any free input
Offered(FreeInputs) ==
    IF script # << >> THEN {Head(script).in}
    ELSE IF free > 0 THEN FreeInputs
    ELSE {}

Consume(in) ==
    /\ last' = [in |-> in, pool |-> Len(ps.particles), spawned |-> ps.spawned,
                intensity |-> ps.intensity, speed |-> ps.speed,
                before |-> ps,
                since_set |-> IF in.op = "set" /\ in.row = "Effect" THEN 0
                              ELSE IF in.op \in {"update", "frame"} /\ last.since_set >= 0
                              THEN last.since_set + 1
                              ELSE last.since_set,
                mark |-> IF in.op = "set" /\ in.row = "Effect" THEN -1
                         ELSE IF in.op \in {"update", "frame"} /\ ps'.effect # ps.effect
                         THEN ps.spawned
                         ELSE last.mark,
                ended |-> IF ps.lightning.active /\ ~ps'.lightning.active THEN now'
                          ELSE last.ended]
    /\ IF script # << >>
       THEN /\ script' = IF Head(script).n > 1
                         THEN <<[Head(script) EXCEPT !.n = @ - 1]>> \o Tail(script)
                         ELSE Tail(script)
            /\ free' = free
       ELSE /\ script' = script
            /\ free' = free - 1

\* ------------------------------------------------------------------------
\* The inputs the environment may choose freely once its script has run
\* ------------------------------------------------------------------------
MaxFree == 2

\* dt as main passes it: at least ANIM_TICK, capped at 150 ms
FreeDts == {ANIM_TICK, 150}
FreeWaits == {3000, CYCLE_DURATION}
Viewports == {<<44, 10>>, <<41, 9>>, <<2, 1>>}
ClockTimes == {<<12, 34, 0>>, <<12, 34, 1>>}

FreeInputs ==
    {InUpdate(dt) : dt \in FreeDts}
      \cup {InSet(row, right) : row \in SettingsRow, right \in BOOLEAN}
      \cup {InWait(d) : d \in FreeWaits}
      \cup {InResize(vp[1], vp[2]) : vp \in Viewports}
      \cup {InDraw(layout, FALSE, hms[1], hms[2], hms[3]) :
              layout \in WidgetLayouts, hms \in ClockTimes}
      \cup {InDraw("rows", TRUE, 12, 34, 0)}

\* ------------------------------------------------------------------------
\* Scenarios: the start of a run.  seed is the rng seed drawn by
\* fastrand::Rng::new(), days the wall-clock date, size the terminal size,
\* script the inputs played before the free ones.
\* ------------------------------------------------------------------------
JAN_15 == 19737
JUL_15 == 19919

Scenario(seed, d, w, h, sc) ==
    [seed |-> seed, days |-> d, width |-> w, height |-> h, script |-> sc]

Frames(n, ms) == Times(n, InFrame(ms, ms))

\* intensity 5 and speed 1: the pool fills fastest and nothing falls out
Dense == <<Times(2, InSet("Intensity", TRUE)), Times(4, InSet("Speed", FALSE))>>

\* a fresh engine
ScFresh == Scenario(7, JAN_15, 44, 10, << >>)

\* the first frames of a fresh engine at the animation cadence
ScFirstFrames == Scenario(7, JAN_15, 44, 10, <<Frames(6, ANIM_TICK)>>)

\* stalled frames (dt at its cap): particles fall out of the bottom
ScStall == Scenario(7, JAN_15, 44, 10, <<Frames(17, 150)>>)

\* rain until the pool is full
ScRainFill == Scenario(7, JAN_15, 44, 10, Dense \o <<Frames(125, ANIM_TICK)>>)

\* snow until the pool is full
ScSnowFill ==
    Scenario(11, JAN_15, 44, 10,
             Dense \o <<Times(1, InSet("Effect", TRUE)), Frames(155, ANIM_TICK)>>)

\* blended seasons until the pool is full
ScSeasonFill ==
    Scenario(7, JUL_15, 44, 10,
             Dense \o <<Times(1, InSet("Effect", FALSE)), Times(1, InSet("SeasonMode", TRUE)),
                        Frames(215, ANIM_TICK)>>)

\* the cycle timer reaches CYCLE_DURATION one millisecond after an update
ScCycleExact ==
    Scenario(7, JAN_15, 44, 10,
             <<Times(1, InFrame(CYCLE_DURATION - 1, 150)), Times(1, InFrame(1, ANIM_TICK)),
               Frames(2, ANIM_TICK)>>)

\* the cycle timer runs out in three long waits, with rain in the pool
ScCycleSplit ==
    Scenario(7, JAN_15, 44, 10,
             <<Frames(12, ANIM_TICK), Times(3, InFrame(SEASON_DURATION, ANIM_TICK)),
               Frames(34, ANIM_TICK)>>)

\* pinned Lightning, up to the call before the first strike
ScLightning ==
    Scenario(7, JAN_15, 44, 10,
             <<Times(1, InSet("CycleMode", TRUE)), Times(2, InSet("Effect", TRUE)),
               Frames(35, 150)>>)

\* pinned Lightning through several strikes
ScStorm ==
    Scenario(11, JAN_15, 44, 10,
             <<Times(1, InSet("CycleMode", TRUE)), Times(2, InSet("Effect", TRUE)),
               Frames(400, 150)>>)

\* intensity at its lower end and speed at its upper end
ScSettingsEnds ==
    Scenario(7, JAN_15, 44, 10,
             <<Times(2, InSet("Intensity", FALSE)), Times(5, InSet("Speed", TRUE)),
               Frames(6, ANIM_TICK)>>)

\* an Effect change after five update calls, then the cooldown and one call
ScCooldown ==
    Scenario(7, JAN_15, 44, 10,
             <<Frames(5, ANIM_TICK), Times(1, InSet("Effect", TRUE)),
               Frames(31, ANIM_TICK)>>)

\* auto-rotating seasons: the season timer reaches SEASON_DURATION one
\* millisecond after an update
ScRotate ==
    Scenario(7, JAN_15, 44, 10,
             <<Times(1, InSet("Effect", FALSE)), Times(1, InSet("SeasonMode", FALSE)),
               Times(1, InFrame(SEASON_DURATION - 1, ANIM_TICK)),
               Times(1, InFrame(1, ANIM_TICK)), Frames(5, ANIM_TICK)>>)

\* the automatic rotation arrives at Seasons with the season timer run out
ScRotateIn ==
    Scenario(7, JAN_15, 44, 10,
             <<Times(1, InSet("SeasonMode", FALSE)),
               Times(3, InFrame(CYCLE_DURATION, ANIM_TICK)), Frames(2, ANIM_TICK)>>)

\* pinned Lightning with a full pool of slow rain: the script ends with the
\* update call that starts the first strike
ScStrike ==
    Scenario(11, JAN_15, 44, 10,
             Dense \o <<Times(1, InSet("CycleMode", TRUE)), Times(2, InSet("Effect", TRUE)),
                        Frames(155, ANIM_TICK), Times(1, InFrame(3000, ANIM_TICK))>>)

Scenarios ==
    {ScFresh, ScFirstFrames, ScStall, ScRainFill, ScSnowFill, ScSeasonFill,
     ScCycleExact, ScCycleSplit, ScLightning, ScStorm, ScSettingsEnds,
     ScCooldown, ScRotate, ScRotateIn}

\* a terminal made one row too short for the clock, then a draw
ScShort ==
    Scenario(7, JAN_15, 44, 10,
             <<Frames(6, ANIM_TICK), Times(1, InResize(44, 8)),
               Times(1, InDraw("rows", FALSE, 12, 34, 0))>>)

\* the runs whose frames are looked at cell by cell: an empty pool, the
\* first rain, a full pool, a strike about to begin, a strike over a full
\* pool, a short terminal
FrameScenarios == {ScFresh, ScFirstFrames, ScRainFill, ScLightning, ScStrike, ScShort}

\* ------------------------------------------------------------------------
\* The App fields of the key dispatch (src/src/main.rs:178-206), as App::new
\* sets them (lines 240-263); `ticks` counts the calls of app.tick()
\* ------------------------------------------------------------------------
NewApp ==
    [should_quit |-> FALSE, active_tab |-> "Overview", sort_mode |-> "Cpu",
     filter_mode |-> FALSE, filter_text |-> << >>, process_scroll |-> 0,
     show_help |-> FALSE, show_settings |-> FALSE, settings_row |-> "Effect",
     ticks |-> 0]

NoEnv == [stall |-> 0, key |-> "none", after |-> 0]
NoCall == [timeout |-> 0, waited |-> 0, dt |-> 0, since |-> 0]

\* the main loop is not running
LoopOff ==
    /\ pc = "off"
    /\ last_anim = 0
    /\ last_tick = 0
    /\ app = NewApp
    /\ env = NoEnv
    /\ trace = << >>
    /\ call = NoCall

\* ------------------------------------------------------------------------
\* Init: App::new (ParticleSystem::new at line 262), before the main loop
\* ------------------------------------------------------------------------
Init ==
    \E sc \in Scenarios :
        /\ ps = NewParticleSystem(sc.seed, 0, sc.days)
        /\ now = 0
        /\ days = sc.days
        /\ size = [width |-> sc.width, height |-> sc.height]
        /\ frame = NoFrame
        /\ script = sc.script
        /\ free = MaxFree
        /\ last = NoStep
        /\ LoopOff
        /\ season = "none"

\* ------------------------------------------------------------------------
\* Actions
\* ------------------------------------------------------------------------
\* main, lines 2169-2170: app.particles.update(size.width, size.height, dt)
UpdateCall ==
    \E in \in Offered(FreeInputs) :
        /\ in.op = "update"
        /\ ps' = update(ps, now, days, size.width, size.height, in.dt)
        /\ frame' = NoFrame
        /\ UNCHANGED <<now, days, size>>
        /\ Consume(in)
        /\ UNCHANGED <<lvars, season>>

\* main, lines 2094 and 2167-2171: the poll times out after d ms, then the
\* animation tick calls update
FrameStep ==
    \E in \in Offered(FreeInputs) :
        /\ in.op = "frame"
        /\ now' = now + in.d
        /\ ps' = update(ps, now + in.d, days, size.width, size.height, in.dt)
        /\ frame' = NoFrame
        /\ UNCHANGED <<days, size>>
        /\ Consume(in)
        /\ UNCHANGED <<lvars, season>>

\* main, lines 2122-2127: settings_change(&mut app.particles, row, right)
SettingsChange ==
    \E in \in Offered(FreeInputs) :
        /\ in.op = "set"
        /\ ps' = settings_change(ps, now, in.row, in.right)
        /\ frame' = NoFrame
        /\ UNCHANGED <<now, days, size>>
        /\ Consume(in)
        /\ UNCHANGED <<lvars, season>>

\* the clock advances by d ms while the program waits
Wait ==
    \E in \in Offered(FreeInputs) :
        /\ in.op = "wait"
        /\ now' = now + in.d
        /\ frame' = NoFrame
        /\ UNCHANGED <<ps, days, size>>
        /\ Consume(in)
        /\ UNCHANGED <<lvars, season>>

\* the terminal is resized
Resize ==
    \E in \in Offered(FreeInputs) :
        /\ in.op = "resize"
        /\ size' = [width |-> in.width, height |-> in.height]
        /\ frame' = NoFrame
        /\ UNCHANGED <<ps, now, days>>
        /\ Consume(in)
        /\ UNCHANGED <<lvars, season>>

\* main, line 2087: terminal.draw(|f| ui(f, &app))
Draw ==
    \E in \in Offered(FreeInputs) :
        /\ in.op = "draw"
        /\ frame' = ui(ps, size.width, size.height, in.layout, in.overlay, in.h, in.m, in.s)
        /\ UNCHANGED <<ps, now, days, size>>
        /\ Consume(in)
        /\ UNCHANGED <<lvars, season>>

Next ==
    \/ UpdateCall
    \/ FrameStep
    \/ SettingsChange
    \/ Wait
    \/ Resize
    \/ Draw

Spec == Init /\ [][Next]_vars

\* the same program, started in the runs of FrameScenarios
FrameInit ==
    \E sc \in FrameScenarios :
        /\ ps = NewParticleSystem(sc.seed, 0, sc.days)
        /\ now = 0
        /\ days = sc.days
        /\ size = [width |-> sc.width, height |-> sc.height]
        /\ frame = NoFrame
        /\ script = sc.script
        /\ free = MaxFree
        /\ last = NoStep
        /\ LoopOff
        /\ season = "none"

FrameSpec == FrameInit /\ [][Next]_vars

\* ------------------------------------------------------------------------
\* The main loop (src/src/main.rs:2071-2190)
\* ------------------------------------------------------------------------
\* line 2080: the sleep between App::new and the first app.tick()
START_DELAY == 200
\* line 2168: .min(0.15), in ms
DT_CAP == 150

\* what the environment does in one iteration: the draw takes `stall` ms;
\* event `key` arrives `after` ms into the wait ("none": no event).  The
\* events are key presses by KeyCode, "release" (a key event of another
\* kind than Press) and "resize" (an event that is no key event).
InLoop(stall, key, after) == [op |-> "loop", stall |-> stall, key |-> key, after |-> after]

\* KeyCode::Char(c)
CharKeys == {"q", "c", "m", "p", "/", "?", "b", "x"}

\* lines 2120 and 2121: SettingsRow::prev and SettingsRow::next (104-123)
NextRow(r) ==
    CASE r = "Effect" -> "CycleMode"
      [] r = "CycleMode" -> "SeasonMode"
      [] r = "SeasonMode" -> "Intensity"
      [] r = "Intensity" -> "Speed"
      [] r = "Speed" -> "Effect"

PrevRow(r) ==
    CASE r = "Effect" -> "Speed"
      [] r = "CycleMode" -> "Effect"
      [] r = "SeasonMode" -> "CycleMode"
      [] r = "Intensity" -> "SeasonMode"
      [] r = "Speed" -> "Intensity"

\* lines 2098-2117: a key press in filter mode
FilterKey(a, key) ==
    CASE key = "Esc" -> [a EXCEPT !.filter_mode = FALSE, !.filter_text = << >>,
                                  !.process_scroll = 0]
      [] key = "Enter" -> [a EXCEPT !.filter_mode = FALSE]
      [] key = "Backspace" ->
            [a EXCEPT !.filter_text = IF @ = << >> THEN @ ELSE SubSeq(@, 1, Len(@) - 1),
                      !.process_scroll = 0]
      [] key \in CharKeys -> [a EXCEPT !.filter_text = Append(@, key), !.process_scroll = 0]
      [] OTHER -> a

\* lines 2118-2130: a key press while the settings overlay is shown; Left
\* and Right go to settings_change
SettingsKey(a, key) ==
    CASE key \in {"Esc", "b"} -> [a EXCEPT !.show_settings = FALSE]
      [] key = "Up" -> [a EXCEPT !.settings_row = PrevRow(@)]
      [] key = "Down" -> [a EXCEPT !.settings_row = NextRow(@)]
      [] OTHER -> a

\* lines 2134-2160: a key press with no overlay and no filter
PlainKey(a, key) ==
    CASE key \in {"q", "Esc"} -> [a EXCEPT !.should_quit = TRUE]
      [] key = "Tab" ->
            [a EXCEPT !.active_tab = CASE @ = "Overview" -> "Processes"
                                       [] @ = "Processes" -> "CpuDetail"
                                       [] @ = "CpuDetail" -> "Overview",
                      !.process_scroll = 0]
      [] key = "c" -> [a EXCEPT !.sort_mode = "Cpu"]
      [] key = "m" -> [a EXCEPT !.sort_mode = "Memory"]
      [] key = "p" -> [a EXCEPT !.sort_mode = "Pid"]
      [] key = "/" -> [a EXCEPT !.filter_mode = TRUE, !.filter_text = << >>]
      [] key = "?" -> [a EXCEPT !.show_help = ~@]
      [] key = "b" -> [a EXCEPT !.show_settings = ~@]
      [] key = "Up" -> [a EXCEPT !.process_scroll = SatSub(@, 1)]
      [] key = "Down" -> [a EXCEPT !.process_scroll = @ + 1]
      [] OTHER -> a

\* a dispatch that sends every key press to the plain branch
DispatchApp_modeless(a, key) ==
    IF key \in {"release", "resize"} THEN a
    ELSE PlainKey(a, key)

\* lines 2095-2163: what the event does to the App fields
DispatchApp(a, key) ==
    IF key \in {"release", "resize"} THEN a
    ELSE IF a.filter_mode THEN FilterKey(a, key)
    ELSE IF a.show_settings THEN SettingsKey(a, key)
    ELSE IF a.show_help THEN [a EXCEPT !.show_help = FALSE]
    ELSE PlainKey(a, key)

\* lines 2122-2127: what the event does to app.particles
DispatchEngine(a, eng, t, key) ==
    IF /\ key \in {"Left", "Right"}
       /\ ~a.filter_mode
       /\ a.show_settings
    THEN settings_change(eng, t, a.settings_row, key = "Right")
    ELSE eng

\* a wait for the larger of the two remainders
PollTimeout_longer(until_data, until_anim) == Max(until_data, until_anim)

\* lines 2090-2092: the timeout of the wait
PollTimeout(until_data, until_anim) == Min(until_data, until_anim)

\* dt without the cap
AnimDt_uncapped(elapsed) == elapsed

\* line 2168: dt, in ms
AnimDt(elapsed) == Min(elapsed, DT_CAP)

\* a loop body with the data tick before the animation tick
NextPc_refresh_first(p, event, quit) ==
    CASE p = "draw" -> "poll"
      [] p = "poll" -> IF event THEN "dispatch" ELSE "data"
      [] p = "dispatch" -> "data"
      [] p = "data" -> "anim"
      [] p = "anim" -> "quit"
      [] p = "quit" -> IF quit THEN "exit" ELSE "draw"

\* a loop body whose quit check never leaves the loop
NextPc_no_exit(p, event, quit) ==
    CASE p = "draw" -> "poll"
      [] p = "poll" -> IF event THEN "dispatch" ELSE "anim"
      [] p = "dispatch" -> "anim"
      [] p = "anim" -> "data"
      [] p = "data" -> "quit"
      [] p = "quit" -> "draw"

\* the loop body in the order of its statements: where main goes after the
\* step at p; `event` says whether the wait ended with an event, `quit`
\* whether should_quit is set
NextPc(p, event, quit) ==
    CASE p = "draw" -> "poll"
      [] p = "poll" -> IF event THEN "dispatch" ELSE "anim"
      [] p = "dispatch" -> "anim"
      [] p = "anim" -> "data"
      [] p = "data" -> "quit"
      [] p = "quit" -> IF quit THEN "exit" ELSE "draw"

\* the inputs the environment may choose freely once its script has run
LoopInputs ==
    {InLoop(0, "none", 0), InLoop(200, "none", 0), InLoop(0, "q", 0), InLoop(0, "b", 20),
     InLoop(200, "q", 0)}

Quiet(n) == Times(n, InLoop(0, "none", 0))
Key(k) == Times(1, InLoop(0, k, 2))

\* no input for 70 iterations: past the first data tick
LpIdle == Scenario(7, JAN_15, 44, 10, <<Quiet(70)>>)

\* draws that take 200 ms and 1 s
LpStall ==
    Scenario(7, JAN_15, 44, 10,
             <<Quiet(2), Times(1, InLoop(200, "none", 0)), Times(1, InLoop(1000, "none", 0)),
               Quiet(2)>>)

\* a key is always waiting when the wait starts, for more than a second
LpTyping == Scenario(7, JAN_15, 44, 10, <<Times(210, InLoop(5, "x", 0))>>)

\* a key every 5 ms for more than a second
LpKeys == Scenario(7, JAN_15, 44, 10, <<Times(230, InLoop(1, "x", 4))>>)

\* the overlays, the filter and the other keys, then quit
LpSettings ==
    Scenario(7, JAN_15, 44, 10,
             <<Key("b"), Key("Down"), Key("Down"), Key("Down"), Key("Right"), Key("Left"),
               Key("Up"), Key("Esc"), Key("?"), Key("x"), Key("/"), Key("x"),
               Key("Backspace"), Key("Enter"), Key("Tab"), Key("c"), Key("m"), Key("p"),
               Key("Down"), Key("Up"), Key("resize"), Key("release"), Quiet(3), Key("q")>>)

\* the keys that open a mode, pressed while another mode is on: typed into
\* the filter, ignored by the settings overlay, closing the help overlay
LpModes ==
    Scenario(7, JAN_15, 44, 10,
             <<Key("/"), Key("b"), Key("?"), Key("q"), Key("Enter"),
               Key("b"), Key("/"), Key("?"), Key("q"), Key("Right"), Key("Esc"),
               Key("?"), Key("b"), Key("Right"), Key("q")>>)

LoopScenarios == {LpIdle, LpStall, LpTyping, LpKeys, LpSettings, LpModes}

\* lines 2076-2084: App::new, the sleep, the first app.tick(), the two timers
LoopInit ==
    \E sc \in LoopScenarios :
        /\ ps = NewParticleSystem(sc.seed, 0, sc.days)
        /\ now = START_DELAY
        /\ days = sc.days
        /\ size = [width |-> sc.width, height |-> sc.height]
        /\ frame = NoFrame
        /\ script = sc.script
        /\ free = MaxFree
        /\ last = NoStep
        /\ pc = "draw"
        /\ last_anim = START_DELAY
        /\ last_tick = START_DELAY
        /\ app = [NewApp EXCEPT !.ticks = 1]
        /\ env = NoEnv
        /\ trace = << >>
        /\ call = NoCall
        /\ season = "none"

\* line 2087: terminal.draw(|f| ui(f, &app)); the draw takes env.stall ms
LoopDraw ==
    \E in \in Offered(LoopInputs) :
        /\ pc = "draw"
        /\ in.op = "loop"
        /\ frame' = ui(ps, size.width, size.height, "rows",
                       app.show_help \/ app.show_settings, 12, 34, (now \div 1000) % 60)
        /\ now' = now + in.stall
        /\ env' = in
        /\ pc' = NextPc(pc, FALSE, app.should_quit)
        /\ trace' = <<"redraw">>
        /\ ps' = ps
        /\ UNCHANGED <<days, size, last_anim, last_tick, app, call, season>>
        /\ Consume(in)

\* lines 2090-2095: the timeout and event::poll; with an event, event::read
LoopPoll ==
    LET until_data == SatSub(TICK_RATE, now - last_tick)
        until_anim == SatSub(ANIM_TICK, now - last_anim)
        timeout == PollTimeout(until_data, until_anim)
        event == env.key # "none" /\ env.after <= timeout
        waited == IF event THEN env.after ELSE timeout
    IN  /\ pc = "poll"
        /\ now' = now + waited
        /\ call' = [call EXCEPT !.timeout = timeout, !.waited = waited]
        /\ env' = IF event THEN env ELSE [env EXCEPT !.key = "none"]
        /\ size' = IF event /\ env.key = "resize"
                   THEN [width |-> 41, height |-> 9]
                   ELSE size
        /\ pc' = NextPc(pc, event, app.should_quit)
        /\ trace' = Append(trace, "wait")
        /\ frame' = NoFrame
        /\ UNCHANGED <<ps, days, script, free, last, last_anim, last_tick, app, season>>

\* lines 2095-2163: the key dispatch
LoopDispatch ==
    /\ pc = "dispatch"
    /\ app' = DispatchApp(app, env.key)
    /\ ps' = DispatchEngine(app, ps, now, env.key)
    /\ pc' = NextPc(pc, TRUE, app.should_quit)
    /\ trace' = Append(trace, "dispatch")
    /\ frame' = NoFrame
    /\ UNCHANGED <<now, days, size, script, free, last, last_anim, last_tick, env, call,
                   season>>

\* lines 2166-2172: the animation tick
LoopAnim ==
    /\ pc = "anim"
    /\ IF now - last_anim >= ANIM_TICK
       THEN /\ ps' = update(ps, now, days, size.width, size.height, AnimDt(now - last_anim))
            /\ call' = [call EXCEPT !.dt = AnimDt(now - last_anim), !.since = last_anim]
            /\ last_anim' = now
            /\ trace' = Append(trace, "update")
       ELSE /\ trace' = Append(trace, "no update")
            /\ UNCHANGED <<ps, call, last_anim>>
    /\ pc' = NextPc(pc, FALSE, app.should_quit)
    /\ frame' = NoFrame
    /\ UNCHANGED <<now, days, size, script, free, last, last_tick, app, env, season>>

\* lines 2174-2178: the data tick
LoopData ==
    /\ pc = "data"
    /\ IF now - last_tick >= TICK_RATE
       THEN /\ app' = [app EXCEPT !.ticks = @ + 1]
            /\ last_tick' = now
            /\ trace' = Append(trace, "refresh")
       ELSE /\ trace' = Append(trace, "no refresh")
            /\ UNCHANGED <<app, last_tick>>
    /\ pc' = NextPc(pc, FALSE, app.should_quit)
    /\ frame' = NoFrame
    /\ UNCHANGED <<ps, now, days, size, script, free, last, last_anim, env, call, season>>

\* lines 2180-2182: the quit check
LoopQuit ==
    /\ pc = "quit"
    /\ pc' = NextPc(pc, FALSE, app.should_quit)
    /\ trace' = Append(trace, "quit check")
    /\ frame' = NoFrame
    /\ UNCHANGED <<ps, now, days, size, script, free, last, last_anim, last_tick, app, env,
                   call, season>>

LoopNext ==
    \/ LoopDraw
    \/ LoopPoll
    \/ LoopDispatch
    \/ LoopAnim
    \/ LoopData
    \/ LoopQuit

LoopSpec == LoopInit /\ [][LoopNext]_vars

\* lines 2095-2182: what follows the wait has nothing to wait for; from the
\* dispatch to the quit check the thread moves on to its next statement
RunOn ==
    /\ pc \in {"dispatch", "anim", "data", "quit"}
    /\ pc' = NextPc(pc, FALSE, app.should_quit)

\* main is one thread: between the wait and the next redraw it does not stop
LoopFair == LoopSpec /\ WF_pc(RunOn)

\* ------------------------------------------------------------------------
\* detect_season on its own: the wall clock stands at any day of
\* DayLo .. DayHi (1 January 1999 .. 31 December 2026) and detect_season
\* is called once
\* ------------------------------------------------------------------------
DayLo == 10592
DayHi == 20818

SeasonInit ==
    /\ days \in DayLo .. DayHi
    /\ season = "none"
    /\ ps = NewParticleSystem(7, 0, days)
    /\ now = 0
    /\ size = [width |-> 44, height |-> 10]
    /\ frame = NoFrame
    /\ script = << >>
    /\ free = 0
    /\ last = NoStep
    /\ LoopOff

\* line 546: detect_season()
DetectSeason ==
    /\ season = "none"
    /\ season' = detect_season(days)
    /\ UNCHANGED <<evars, lvars>>

SeasonNext == DetectSeason

SeasonSpec == SeasonInit /\ [][SeasonNext]_vars

\* ------------------------------------------------------------------------
\* Properties
\* ------------------------------------------------------------------------
\* the last step was a call of ParticleSystem::update
Updated == last.in.op \in {"update", "frame"}

Pool == ps.particles

\* C1: after any sequence of update and settings_change calls the particle
\* pool holds at most MAX_PARTICLES (100) particles.
C1_PoolBounded == Len(Pool) <= MAX_PARTICLES

\* C1 witness: a spawn-eligible update has run on a full pool and pushed nothing
C1_Witness ==
    /\ Updated
    /\ Len(Pool) = MAX_PARTICLES
    /\ ps.transition_cooldown = 0
    /\ SpawnFrame(ps.frame_count)
    /\ ps.spawned = last.spawned
    /\ ps.intensity > 1

\* the cells of the last draw that held widget text before the clock and
\* particle layers ran
WidgetText == { c \in DOMAIN frame.cells : frame.widget[c].symbol # " " }

\* C2: a cell that held a non-blank glyph before render_clock and
\* render_particles ran holds the same glyph, in the same foreground colour,
\* afterwards; only its background may differ.
C2_WidgetGlyphsKept ==
    \A c \in WidgetText :
        /\ frame.cells[c].symbol = frame.widget[c].symbol
        /\ frame.cells[c].fg = frame.widget[c].fg

\* C2 witness: a draw during a flash with the bolt visible in which a bolt
\* segment, a particle and a lit clock pixel each fall on widget text
C2_Witness ==
    /\ frame # NoFrame
    /\ ps.lightning.active /\ ps.effect = "Lightning"
    /\ ps.lightning.frames_remaining >= 12
    /\ \E i \in DOMAIN ps.lightning.bolt_segments :
          <<ps.lightning.bolt_segments[i][1], ps.lightning.bolt_segments[i][2]>> \in WidgetText
    /\ \E i \in DOMAIN Pool : <<AsU16(Pool[i].x), AsU16(Pool[i].y)>> \in WidgetText
    /\ \E c \in WidgetText : frame.cells[c].bg = <<22, 24, 40>>

\* particles the last update call removed from the pool
Discarded == Len(Pool) - (ps.spawned - last.spawned) < last.pool

\* C3: after an update call on an enabled engine with viewport width x
\* height, every particle of the pool has y < height + 1, -1 <= x < width + 1
\* and life > 0.
C3_Retention ==
    (Updated /\ ps.enabled) =>
        \A i \in DOMAIN Pool :
            /\ Pool[i].y < (size.height + 1) * POS
            /\ Pool[i].x >= -POS
            /\ Pool[i].x < (size.width + 1) * POS
            /\ Pool[i].life > 0

\* C3 witness: an update call that discarded particles, kept others and
\* pushed new ones
C3_Witness ==
    /\ Updated /\ ps.enabled /\ Discarded
    /\ ps.spawned > last.spawned
    /\ \E i \in DOMAIN Pool : Pool[i].id <= last.spawned

\* C4: an update call on an enabled engine lowers the life of every particle
\* that is in the pool before and after the call by exactly 1.
C4_LifeStep ==
    [][(Updated' /\ ps.enabled) =>
          \A i \in DOMAIN ps.particles : \A j \in DOMAIN ps'.particles :
              ps.particles[i].id = ps'.particles[j].id =>
                  ps'.particles[j].life = ps.particles[i].life - 1]_vars

\* C4 witness: an update call during the transition cooldown, off the spawn
\* throttle, with survivors that have aged
C4_Witness ==
    /\ Updated /\ ps.enabled
    /\ ps.transition_cooldown > 0
    /\ ps.frame_count % 6 # 0
    /\ \E i \in DOMAIN Pool : Pool[i].id <= last.spawned /\ Pool[i].life < 1200

\* the effect one step further in Rain -> Snow -> Lightning -> Seasons -> Rain
Rotation == [Rain |-> "Snow", Snow |-> "Lightning", Lightning |-> "Seasons", Seasons |-> "Rain"]

\* C5: in cycle mode Auto an update call leaves the effect and the cycle timer
\* alone while less than CYCLE_DURATION (45 s) has passed since the cycle
\* timer was last reset; once 45 s or more have passed it advances the effect
\* by exactly one step of the rotation and resets the cycle timer.
C5_AutoCycle ==
    [][(Updated' /\ ps.enabled /\ ps.cycle_mode = "Auto") =>
          IF now' - ps.cycle_timer < 45000
          THEN ps'.effect = ps.effect /\ ps'.cycle_timer = ps.cycle_timer
          ELSE ps'.effect = Rotation[ps.effect] /\ ps'.cycle_timer = now']_vars

\* C5 witness: the update call made exactly 45 s after construction, one
\* millisecond after a call that left the effect alone, has moved on to Snow
C5_Witness ==
    /\ Updated /\ ps.cycle_mode = "Auto"
    /\ now = 45000 /\ ps.cycle_timer = now
    /\ ps.frame_count = 2
    /\ ps.effect = "Snow"

\* C6: after settings_change on the Effect row, in either direction and from
\* any prior state, the pool is empty, the transition cooldown is 30 and the
\* cycle timer is reset.
C6_EffectChange ==
    (last.in.op = "set" /\ last.in.row = "Effect") =>
        /\ Pool = << >>
        /\ ps.transition_cooldown = 30
        /\ ps.cycle_timer = now

\* C6 witness: an Effect change made on a full pool, after the cooldown has
\* run out and the clock has moved on
C6_Witness ==
    /\ last.in.op = "set" /\ last.in.row = "Effect"
    /\ last.pool = MAX_PARTICLES
    /\ now > 0
    /\ Pool = << >>

\* C7: every segment of a bolt generated for a viewport of width w has
\* 0 <= x < w.
C7_BoltInsideViewport ==
    [][(Updated' /\ ~ps.lightning.active /\ ps'.lightning.active) =>
          \A i \in DOMAIN ps'.lightning.bolt_segments :
              /\ ps'.lightning.bolt_segments[i][1] >= 0
              /\ ps'.lightning.bolt_segments[i][1] < size.width]_vars

\* C8: an update call pushes particles only when the frame counter, after its
\* increment, is a multiple of 6, and then at most `intensity` of them; of the
\* first 6 update calls on a fresh engine only the 6th can push.
C8_SpawnThrottle ==
    /\ (Updated /\ ps.spawned > last.spawned) =>
          /\ ps.frame_count % 6 = 0
          /\ ps.spawned - last.spawned <= ps.intensity
    /\ ps.frame_count < 6 => ps.spawned = 0

\* C8 witness: the 6th update call on a fresh engine has pushed `intensity`
\* particles, the first ones of the engine
C8_Witness ==
    /\ Updated
    /\ ps.frame_count = 6
    /\ last.spawned = 0
    /\ ps.spawned = ps.intensity

\* C9: next_strike, in whole seconds, is within 3 .. 8, at construction and
\* after every resampling.
C9_NextStrikeRange ==
    /\ ps.lightning.next_strike >= 3
    /\ ps.lightning.next_strike <= 8

\* C9 witness: a strike has begun and has resampled next_strike to 8
C9_Witness ==
    /\ ps.lightning.active
    /\ ps.lightning.bolt_segments # << >>
    /\ ps.lightning.next_strike = 8

\* C10: intensity stays within 1 .. 5 and speed within 1 .. 10; a step past
\* either end leaves the value at that end.
C10_SettingsRanges ==
    /\ ps.intensity \in 1 .. 5
    /\ ps.speed \in 1 .. 10
    /\ (last.in = InSet("Intensity", TRUE) /\ last.intensity = 5) => ps.intensity = 5
    /\ (last.in = InSet("Intensity", FALSE) /\ last.intensity = 1) => ps.intensity = 1
    /\ (last.in = InSet("Speed", TRUE) /\ last.speed = 10) => ps.speed = 10
    /\ (last.in = InSet("Speed", FALSE) /\ last.speed = 1) => ps.speed = 1

\* C10 witness: a step up on the Speed row at speed 10, with the intensity at
\* its lower end
C10_Witness ==
    /\ last.in = InSet("Speed", TRUE)
    /\ last.speed = 10
    /\ ps.speed = 10
    /\ ps.intensity = 1

\* The Gregorian calendar, counted forward from 1 January 1970
IsLeap(y) == (y % 4 = 0 /\ y % 100 # 0) \/ y % 400 = 0

YearLen(y) == IF IsLeap(y) THEN 366 ELSE 365

MonthLen(y, m) ==
    IF m = 2 THEN (IF IsLeap(y) THEN 29 ELSE 28)
    ELSE IF m \in {4, 6, 9, 11} THEN 30
    ELSE 31

\* the month of day d (from 0) of year y, looking from month m on
RECURSIVE MonthInYear(_, _, _)
MonthInYear(d, y, m) ==
    IF d < MonthLen(y, m) THEN m ELSE MonthInYear(d - MonthLen(y, m), y, m + 1)

\* the civil month of the day d days after 1 January of year y
RECURSIVE MonthFrom(_, _)
MonthFrom(d, y) ==
    IF d < YearLen(y) THEN MonthInYear(d, y, 1) ELSE MonthFrom(d - YearLen(y), y + 1)

CalendarMonth(d) == MonthFrom(d, 1970)

SeasonOfMonth ==
    [m \in 1 .. 12 |->
        IF m \in {3, 4, 5} THEN "Spring"
        ELSE IF m \in {6, 7, 8} THEN "Summer"
        ELSE IF m \in {9, 10, 11} THEN "Autumn"
        ELSE "Winter"]

\* C14: detect_season maps every day count of DayLo .. DayHi to the season
\* of its civil month; 15 July 2024 gives Summer and 15 January 2024 Winter.
C14_SeasonOfCivilMonth ==
    season # "none" =>
        /\ season = SeasonOfMonth[CalendarMonth(days)]
        /\ days = 19919 => season = "Summer"
        /\ days = 19737 => season = "Winter"

\* C14 witness: detect_season has answered for 29 February 2000, the leap
\* day of a century year
C14_Witness ==
    /\ days = 11016
    /\ CalendarMonth(days) = 2
    /\ season = "Winter"

\* the engine before the last step
Before == last.before

\* the transition cooldown as the last update call found it at its cooldown
\* check, after the auto-cycle step of the same call
CooldownAtCheck ==
    IF ps.cycle_timer # Before.cycle_timer THEN 30 ELSE Before.transition_cooldown

\* C15: while the effect is Lightning and a strike is active, every update
\* call lowers frames_remaining by 1.
C15_FlashCountsUpdates ==
    (/\ Updated
     /\ Before.effect = "Lightning" /\ ps.effect = "Lightning"
     /\ Before.lightning.active) =>
        ps.lightning.frames_remaining = Before.lightning.frames_remaining - 1

\* C16: with cycle_mode = Pinned no update call changes the effect, however
\* long the cycle timer has run; the effect changes only through
\* settings_change on the Effect row.
C16_PinnedHolds ==
    (last.in.op # "none" /\ Before.cycle_mode = "Pinned" /\ ps.effect # Before.effect) =>
        (last.in.op = "set" /\ last.in.row = "Effect")

\* C16 witness: an update call in Pinned mode with CYCLE_DURATION or more on
\* the cycle timer, the effect as before
C16_Witness ==
    /\ Updated
    /\ Before.cycle_mode = "Pinned"
    /\ now - Before.cycle_timer >= 45000
    /\ ps.effect = Before.effect

\* C17: an update call that finds the transition cooldown above 0 at its
\* cooldown check lowers it by exactly 1, pushes no particle and leaves the
\* lightning state alone; after an Effect change through settings_change the
\* pool is empty after each of the next 30 update calls, and no call before
\* the 31st pushes.
C17_Cooldown ==
    /\ (Updated /\ CooldownAtCheck > 0) =>
          /\ ps.transition_cooldown = CooldownAtCheck - 1
          /\ ps.spawned = Before.spawned
          /\ ps.lightning = Before.lightning
    /\ (Updated /\ last.since_set \in 1 .. 30) => Pool = << >>
    /\ (Updated /\ last.since_set >= 1 /\ ps.spawned > Before.spawned) => last.since_set >= 31

\* C17 witness: the 31st update call after an Effect change pushes the first
\* particles of the new effect
C17_Witness ==
    /\ Updated
    /\ last.since_set = 31
    /\ Before.particles = << >>
    /\ ps.spawned > Before.spawned

\* C18: at the first update call that pushes after an automatic rotation, the
\* pool holds no particle pushed before the rotation.
C18_CooldownDrains ==
    (/\ Updated
     /\ last.mark >= 0
     /\ Before.spawned = last.mark
     /\ ps.spawned > Before.spawned) =>
        \A i \in DOMAIN Pool : Pool[i].id > last.mark

\* what the kinematics pass of the last update call left of the pool
Kept == Kinematics(Before, size.width, size.height, last.in.dt).particles

\* C19: an update call with the cooldown at 0 and the frame counter a
\* multiple of 6 adds exactly min(intensity, 100 - n) particles to the n the
\* kinematics pass left, under every effect, and keeps those n as they are.
C19_SpawnCount ==
    (Updated /\ CooldownAtCheck = 0 /\ ps.frame_count % 6 = 0) =>
        LET n == Len(Kept)
            k == IF ps.intensity < 100 - n THEN ps.intensity ELSE 100 - n
        IN  /\ Len(Pool) = n + k
            /\ ps.spawned = Before.spawned + k
            /\ SubSeq(Pool, 1, n) = Kept
            /\ \A i \in n + 1 .. n + k : Pool[i].id > Before.spawned

\* C19 witness: a spawn-eligible call that found room for some but not all
\* of its `intensity` particles
C19_Witness ==
    /\ Updated /\ CooldownAtCheck = 0 /\ ps.frame_count % 6 = 0
    /\ Len(Kept) < 100
    /\ 100 - Len(Kept) < ps.intensity
    /\ Len(Pool) = 100

\* one step of Spring -> Summer -> Autumn -> Winter -> Spring
SeasonAfter == [Spring |-> "Summer", Summer |-> "Autumn", Autumn |-> "Winter", Winter |-> "Spring"]

\* C20: an update call changes current_season only when the effect is
\* Seasons, season_mode is AutoRotate and 15 s or more have passed since the
\* season timer was reset, and then by one step of the rotation with the
\* timer reset; in every other case current_season and the timer stay.
C20_SeasonRotation ==
    Updated =>
        IF /\ ps.effect = "Seasons"
           /\ Before.season_mode = "AutoRotate"
           /\ now - Before.season_timer >= 15000
        THEN /\ ps.current_season = SeasonAfter[Before.current_season]
             /\ ps.season_timer = now
        ELSE /\ ps.current_season = Before.current_season
             /\ ps.season_timer = Before.season_timer

\* C20 witness: the update call made exactly 15 s after the season timer was
\* reset, one millisecond after a call that left the season alone, has moved
\* the season on
C20_Witness ==
    /\ Updated
    /\ Before.effect = "Seasons" /\ Before.season_mode = "AutoRotate"
    /\ now - Before.season_timer = 15000
    /\ Before.frame_count = 1
    /\ ps.current_season = SeasonAfter[Before.current_season]
    /\ ps.season_timer = now

\* the place of each step in an iteration of the main loop
StepRank ==
    [s \in {"redraw", "wait", "dispatch", "update", "no update", "refresh", "no refresh",
            "quit check"} |->
        CASE s = "redraw" -> 1
          [] s = "wait" -> 2
          [] s = "dispatch" -> 3
          [] s \in {"update", "no update"} -> 4
          [] s \in {"refresh", "no refresh"} -> 5
          [] s = "quit check" -> 6]

LastStep == IF trace = << >> THEN "none" ELSE trace[Len(trace)]

\* C11: the steps of every iteration of the main loop come in the order
\* redraw, input wait, dispatch (with an event only), weather update (if
\* due), metrics refresh (if due), quit check; the update comes before the
\* refresh and each step is over before the next begins.
C11_StepOrder ==
    /\ \A i \in 1 .. Len(trace) - 1 : StepRank[trace[i]] < StepRank[trace[i + 1]]
    /\ Len(trace) >= 1 => trace[1] = "redraw"
    /\ Len(trace) >= 2 => trace[2] = "wait"
    /\ Len(trace) >= 3 => (trace[3] = "dispatch") = (env.key # "none")
    /\ (pc \in {"draw", "exit"} /\ trace # << >>) =>
          /\ LastStep = "quit check"
          /\ \E i \in DOMAIN trace : StepRank[trace[i]] = 4
          /\ \E i \in DOMAIN trace : StepRank[trace[i]] = 5

\* C11 witness: an iteration that has done all six steps
C11_Witness ==
    trace = <<"redraw", "wait", "dispatch", "update", "refresh", "quit check">>

\* the wait of this iteration is over and the animation check is still ahead
AfterWait == pc \in {"dispatch", "anim"}

\* C12: the input wait never lasts longer than the smaller of the two
\* remaining intervals; after every wait, ended by an event or by the
\* timeout, a due weather update runs and a due metrics refresh runs; and
\* every iteration reaches its quit check with less than ANIM_TICK since the
\* last update and less than TICK_RATE since the last refresh, so neither
\* starves while time advances, whatever events arrive.
C12_NoStarvation ==
    /\ [](AfterWait =>
            LET start == now - call.waited
                left_data == IF start - last_tick >= 1000 THEN 0 ELSE 1000 - (start - last_tick)
                left_anim == IF start - last_anim >= 16 THEN 0 ELSE 16 - (start - last_anim)
            IN  call.waited <= left_data /\ call.waited <= left_anim)
    /\ [](pc = "quit" => (now - last_anim < 16 /\ now - last_tick < 1000))
    /\ ((AfterWait /\ now - last_anim >= 16) ~> (LastStep = "update"))
    /\ ((AfterWait /\ now - last_tick >= 1000) ~> (LastStep = "refresh"))

\* C12 witness: a wait ended by a key press, and the metrics refresh has run
\* in the same iteration, more keys to come
C12_Witness ==
    /\ LastStep = "refresh"
    /\ "dispatch" \in {trace[i] : i \in DOMAIN trace}
    /\ "update" \in {trace[i] : i \in DOMAIN trace}
    /\ script # << >>
    /\ ~app.should_quit

\* C13: the dt of every update call made by the main loop is the time since
\* the previous animation tick, capped at 150 ms, and the call is made only
\* when that time is at least 16 ms.
C13_DtCapped ==
    LastStep = "update" =>
        /\ call.dt = (IF now - call.since < 150 THEN now - call.since ELSE 150)
        /\ call.dt <= 150
        /\ now - call.since >= 16
        /\ last_anim = now

\* C13 witness: an update call after a stall of a second, with dt = 150 ms
C13_Witness ==
    /\ LastStep = "update"
    /\ now - call.since >= 1000
    /\ call.dt = 150

\* ------------------------------------------------------------------------
\* Lightning timing
\* ------------------------------------------------------------------------
\* the step was an update call in which a strike began
StrikeBegan == Updated /\ ~Before.lightning.active /\ ps.lightning.active

\* the step was an update call in which a strike ended
StrikeEnded == Updated /\ Before.lightning.active /\ ~ps.lightning.active

\* C21: when a strike ends the reference clock is reset and the interval
\* resampled, so a strike begins no sooner than LIGHTNING_MIN_INTERVAL_SECS
\* after the end of the strike before it.
C21_IntervalFromStrikeEnd ==
    /\ StrikeEnded => ps.lightning.timer = now
    /\ (StrikeBegan /\ last.ended >= 0) =>
          now - last.ended >= LIGHTNING_MIN_INTERVAL_SECS * 1000

\* ------------------------------------------------------------------------
\* What a frame shows
\* ------------------------------------------------------------------------
\* the cells of the frame that hold a bolt glyph
BoltCells ==
    { c \in DOMAIN frame.cells :
        /\ frame.cells[c].fg = <<180, 180, 100>>
        /\ frame.cells[c].symbol \in {"u2572", "u2502", "u2571"} }

\* the cells the pass left blank
BlankCells == { c \in DOMAIN frame.cells : frame.cells[c].symbol = " " }

\* C22: a frame that shows a bolt glyph was drawn with the brightest of the
\* three flash tints: frames_remaining is in the middle tier and every blank
\* cell has the brightest background.
C22_BoltOnlyAtBrightest ==
    BoltCells # {} =>
        /\ ps.lightning.frames_remaining \in 7 .. 12
        /\ \A c \in BlankCells : frame.cells[c].bg = <<30, 30, 55>>


\* the last step was a terminal.draw
Drawn == last.in.op = "draw"

\* what a cell shows: glyph and foreground colour
Shown(c) == <<frame.cells[c].symbol, frame.cells[c].fg>>

\* the lit clock pixels of the pass, none under an overlay
ClockOf(in) ==
    IF in.overlay THEN {}
    ELSE ClockPixels(frame.width, frame.height, in.h, in.m, in.s)

\* the bolt entries of the pass, none outside the bright part of a flash
BoltOf(eng) ==
    IF eng.lightning.active /\ eng.effect = "Lightning"
       /\ BoltVisible(eng.lightning.frames_remaining)
    THEN { eng.lightning.bolt_segments[i] : i \in DOMAIN eng.lightning.bolt_segments }
    ELSE {}

\* the pool positions, in pool order, of the particles that map to cell c
ParticlesAt(writes, c) == { i \in DOMAIN writes : writes[i].x = c[1] /\ writes[i].y = c[2] }

Lowest(S) == CHOOSE i \in S : \A j \in S : i <= j

\* C23: a cell left blank by the widgets shows the glyph of its first
\* writer in the order clock, bolt, particles in pool order: a lit clock
\* pixel shows the clock block, any other bolt cell the bolt glyph, any
\* other cell the earliest particle of the pool that maps to it, and a cell
\* none of them maps to stays blank.
C23_FirstWriterWins ==
    Drawn =>
        LET clock == ClockOf(last.in)
            bolt == BoltOf(ps)
            writes == ParticleWrites(Pool)
            mapped == { <<writes[i].x, writes[i].y>> : i \in DOMAIN writes }
        IN  \A c \in DOMAIN frame.cells :
                frame.widget[c].symbol = " " =>
                    Shown(c) =
                        IF c \in clock THEN <<"u2588", <<70, 80, 130>>>>
                        ELSE IF c \in bolt THEN <<BoltGlyph(c[2]), <<180, 180, 100>>>>
                        ELSE IF c \in mapped
                        THEN LET w == writes[Lowest(ParticlesAt(writes, c))]
                             IN  <<w.symbol, w.fg>>
                        ELSE <<" ", Reset>>

\* two particles of the pool with different glyphs map to one cell that the
\* widgets, the clock and the bolt leave blank
TwoOnOneCell ==
    LET writes == ParticleWrites(Pool)
    IN  \E i, j \in DOMAIN writes :
            /\ i < j
            /\ writes[i].x = writes[j].x /\ writes[i].y = writes[j].y
            /\ writes[i].symbol # writes[j].symbol
            /\ <<writes[i].x, writes[i].y>> \in DOMAIN frame.cells
            /\ frame.widget[<<writes[i].x, writes[i].y>>].symbol = " "
            /\ <<writes[i].x, writes[i].y>> \notin ClockOf(last.in) \cup BoltOf(ps)

\* a particle of the pool maps to a cell of S
ParticleOn(S) ==
    \E i \in DOMAIN Pool : <<AsU16(Pool[i].x), AsU16(Pool[i].y)>> \in S

\* the cells the widgets left blank
WidgetBlank == { c \in DOMAIN frame.cells : frame.widget[c].symbol = " " }

\* C23 witness: a frame in which a particle maps to a lit clock pixel,
\* another to a bolt cell, and two particles with different glyphs to one
\* otherwise blank cell
C23_Witness ==
    /\ Drawn
    /\ ParticleOn(ClockOf(last.in) \cap WidgetBlank)
    /\ ParticleOn((BoltOf(ps) \cap WidgetBlank) \ ClockOf(last.in))
    /\ TwoOnOneCell


\* the cells the clock layer has changed: its block glyph on a blank cell,
\* its glow behind widget text
ClockTouched ==
    { c \in DOMAIN frame.cells :
        frame.cells[c].symbol = "u2588" \/ frame.cells[c].bg = <<22, 24, 40>> }

\* C24: the clock layer changes no cell of a viewport narrower than 42
\* columns or shorter than 9 rows, nor under an overlay; every cell it
\* changes is in rows 1..5 and in the 38 centred columns, inside the viewport.
C24_ClockArea ==
    Drawn =>
        LET ox == (frame.width - 38) \div 2
        IN  /\ (frame.width < 42 \/ frame.height < 9 \/ last.in.overlay) => ClockTouched = {}
            /\ \A c \in ClockTouched :
                  /\ c[2] \in 1 .. 5
                  /\ c[1] \in ox .. ox + 37
                  /\ c[1] >= 0 /\ c[1] < frame.width /\ c[2] < frame.height

\* C24 witness: a clock drawn at 44 x 10 over widget rows, with blocks and
\* glow, reaching the first and the last of its columns and rows
C24_Witness ==
    /\ Drawn
    /\ frame.width = 44 /\ frame.height = 10
    /\ <<3, 5>> \in ClockTouched
    /\ <<40, 1>> \in ClockTouched
    /\ \E c \in ClockTouched : frame.cells[c].symbol = "u2588"
    /\ \E c \in ClockTouched : frame.cells[c].symbol = "W"



\* ------------------------------------------------------------------------
\* Rain particles
\* ------------------------------------------------------------------------
\* the particles pushed by spawn_rain in the last step: those an update
\* call has pushed under Rain or Lightning
NewRain ==
    IF Updated /\ ps.effect \in {"Rain", "Lightning"}
    THEN { i \in DOMAIN Pool : Pool[i].id > last.spawned }
    ELSE {}

\* a light rain particle: the mist dot in dim gray
Mist(p) == p.symbol = "u00B7" /\ p.fg = <<50, 50, 50>>

\* C25: a rain particle created as light mist has horizontal drift 0; the
\* wind drift and the diagonal glyph go to heavy particles only.
C25_MistHasNoDrift ==
    \A i \in NewRain :
        /\ Mist(Pool[i]) => Pool[i].drift_x = 0
        /\ Pool[i].symbol = "/" => ~Mist(Pool[i])


\* ------------------------------------------------------------------------
\* The main loop: quitting and the key modes
\* ------------------------------------------------------------------------
\* C26: the quit flag, once set, stays set; from the moment it is set the
\* loop is past its redraw, its wait and its dispatch (only the two ticks
\* and the quit check of the iteration remain), and the quit check that
\* finds it set leaves the loop.
C26_QuitExits ==
    /\ [](app.should_quit => pc \in {"anim", "data", "quit", "exit"})
    /\ [][app.should_quit => app'.should_quit]_vars
    /\ [][(pc = "quit" /\ app.should_quit) => pc' = "exit"]_vars
    /\ [][pc = "exit" => pc' = "exit"]_vars

\* C26 witness: the loop has exited, and the iteration in which the flag was
\* set still ran the weather update before its quit check
C26_Witness ==
    /\ pc = "exit"
    /\ app.should_quit
    /\ \E i \in DOMAIN trace : trace[i] = "update"
    /\ \E i \in DOMAIN trace : trace[i] = "dispatch"


\* ------------------------------------------------------------------------
\* Particles in a frame
\* ------------------------------------------------------------------------
\* truncation of a position to a whole cell coordinate, toward zero
Trunc(v) == IF v >= 0 THEN v \div POS ELSE -((-v) \div POS)

\* the frame of the same pass with no particle in the pool
BareCells ==
    ui([ps EXCEPT !.particles = << >>], frame.width, frame.height, last.in.layout,
       last.in.overlay, last.in.h, last.in.m, last.in.s).cells

\* the cells a particle was written to
ParticleCells ==
    IF Drawn THEN LET bare == BareCells
                  IN  { c \in DOMAIN frame.cells : frame.cells[c] # bare[c] }
    ELSE {}

\* C27: every cell a particle was written to is the cell some particle's
\* position truncates to, and that particle is less than a full row above
\* the top edge: a particle with y <= -1 is written to no cell.
C27_AboveTopNotDrawn ==
    \A c \in ParticleCells :
        \E i \in DOMAIN Pool :
            /\ Pool[i].y > -POS
            /\ Trunc(Pool[i].x) = c[1]
            /\ Trunc(Pool[i].y) = c[2]
            /\ Shown(c) = <<Pool[i].symbol, Pool[i].fg>>


\* ------------------------------------------------------------------------
\* The lightning state
\* ------------------------------------------------------------------------
\* C28: lightning.active is true exactly when frames_remaining is above 0,
\* and frames_remaining is never above LIGHTNING_FLASH_FRAMES, whatever the
\* effect in force.
C28_ActiveIffFramesRemain ==
    /\ ps.lightning.active <=> ps.lightning.frames_remaining > 0
    /\ ps.lightning.frames_remaining >= 0
    /\ ps.lightning.frames_remaining <= LIGHTNING_FLASH_FRAMES

\* C28 witness: an Effect change away from Lightning in the middle of a
\* strike and one back to Lightning, the strike still in progress
C28_Witness ==
    /\ last.in = InSet("Effect", FALSE)
    /\ Before.effect = "Seasons"
    /\ ps.effect = "Lightning"
    /\ ps.lightning.active
    /\ ps.lightning.frames_remaining \in 1 .. LIGHTNING_FLASH_FRAMES - 1


\* ------------------------------------------------------------------------
\* The frame and the viewport
\* ------------------------------------------------------------------------
\* the bolt entries and the particles that map outside the viewport
BoltOutside ==
    { i \in DOMAIN ps.lightning.bolt_segments :
        \/ ps.lightning.bolt_segments[i][1] >= size.width
        \/ ps.lightning.bolt_segments[i][2] >= size.height }

PoolOutside ==
    { i \in DOMAIN Pool : AsU16(Pool[i].x) >= size.width \/ AsU16(Pool[i].y) >= size.height }

ModesOn(a) ==
    (IF a.filter_mode THEN 1 ELSE 0) + (IF a.show_help THEN 1 ELSE 0)
      + (IF a.show_settings THEN 1 ELSE 0)

\* C30: at most one of filter mode, the help overlay and the settings
\* overlay is on; a dispatch changes the engine (settings_change) only with
\* the settings overlay on and the other two off; the quit flag is set only
\* by a key pressed with none of the three on.
C30_OneModeAtATime ==
    /\ [](ModesOn(app) <= 1)
    /\ [][(pc = "dispatch" /\ ps' # ps) =>
            (app.show_settings /\ ~app.filter_mode /\ ~app.show_help
             /\ env.key \in {"Left", "Right"})]_vars
    /\ [][(~app.should_quit /\ app'.should_quit) =>
            (pc = "dispatch" /\ ModesOn(app) = 0 /\ env.key \in {"q", "Esc"})]_vars

\* C30 witness: 'b', '?' and 'q' were typed into the filter, then '/', '?'
\* and 'q' pressed with the settings overlay on, and Right has changed the
\* engine through the overlay
C30_Witness ==
    /\ LastStep = "dispatch"
    /\ env.key = "Right"
    /\ app.show_settings /\ ~app.filter_mode /\ ~app.show_help
    /\ app.filter_text = <<"b", "?", "q">>
    /\ ~app.should_quit
    /\ ps # Before



=============================================================================
